---- MODULE Spec2Model ----
(***************************************************************************)
(* State-machine model of src/parser.py (DoskiParser): proxy pool and      *)
(* rotation, the resilient fetcher _fetch_page, the headless-browser       *)
(* renderer get_rendered_html, and the parsing session full_parse.         *)
(***************************************************************************)
EXTENDS Integers, Sequences, FiniteSets, TLC

\* ---------------------------------------------------------------- bounds
MaxPool == 3          \* longest configured proxy_list
MaxCap == 2           \* largest max_categories_per_session explored
MaxBrowsers == 2      \* most browser sessions open at once explored
MaxLinks == 3         \* most qualifying links on the modelled home page
MaxListings == 1      \* most listings extracted from one category page
MaxAnchors == 6       \* most anchors on a home page given to discovery
MaxRows == 4          \* most table rows on a category page given to extraction

\* ------------------------------------------------------ program constants
Delay == 2            \* @rate_limiter(delay=2.0)
MaxCategories == 5    \* fallback_categories[:5], unique_categories[:5]
MinDiscovered == 3    \* len(unique_categories) < 3
SettleDelay == 3      \* time.sleep(3)

\* ------------------------------------------------------------ value sets
NoProxy == "direct"                       \* session.proxies == {}
HttpProxies == {"http://a"}
SocksProxies == {"socks5://b"}
ProxyURLs == HttpProxies \cup SocksProxies
Pools == UNION {[1..n -> ProxyURLs] : n \in 0..MaxPool}

base_url == "https://www.doski.ru"
fallback_categories ==
  << "/cat-nedvizhimost/zhilaya/kvartiry/prodam/",
     "/cat-nedvizhimost/zhilaya/kvartiry/sdau/",
     "/cat-transport/legkovye-avtomobili/prodam/",
     "/cat-nedvizhimost/zhilaya/doma-dachi/prodam/",
     "/cat-detskiy-mir/detskaya-odezhda-obuv/detskaya-odezhda/prodam/",
     "/cat-zhivotnye-i-rasteniya/sobaki/podaru/",
     "/cat-lichnye-veschi/odezhda/platya-bluzki-ubki/",
     "/cat-rabota/vakansii/" >>
DiscoveredURLs == {"/cat-1/", "/cat-2/", "/cat-3/"}
FetchURLs == {base_url, "/cat-1/"}
\* robots.txt rule sets explored: the URLs the loaded policy disallows
RobotsRules == { {}, {base_url}, {"/cat-1/", fallback_categories[1]} }

\* Exceptions a GET (session.get + raise_for_status) can raise, each with the
\* classes it is an instance of (requests.exceptions hierarchy).
Mro(f) ==
  CASE f = "ProxyError"      -> {"ProxyError", "ConnectionError", "RequestException"}
    [] f = "ConnectionError" -> {"ConnectionError", "RequestException"}
    [] f = "ConnectTimeout"  -> {"ConnectTimeout", "ConnectionError", "Timeout", "RequestException"}
    [] f = "ReadTimeout"     -> {"ReadTimeout", "Timeout", "RequestException"}
    [] f = "HTTPError"       -> {"HTTPError", "RequestException"}
RequestFaults == {"ProxyError", "ConnectionError", "ConnectTimeout", "ReadTimeout", "HTTPError"}
GetOutcomes == {"ok"} \cup RequestFaults

Min(a, b) == IF a < b THEN a ELSE b

VARIABLES
  config,                \* proxy_enabled, proxy_rotate, max_categories_per_session,
                         \* category_delay
  has_socks,             \* whether `import socks` succeeds
  robots_parser,         \* [loaded, disallow]: loaded = FALSE is robots_parser None
  proxy_list, current_proxy_index,
  proxies,               \* session.proxies: the proxy URL in effect, or NoProxy
  pc,                    \* position of the single task
  caller,                \* who called the running fetch/render: "user" or "session"
  \* _fetch_page locals and per-call observations
  furl, proxy_attempt, max_proxy_retries, old_proxies, fres,
  gets, fails, rots, notes, allTransport, reqFault, getAfterReq, fromLoop,
  index0, proxies0,
  tried,                 \* per GET of the call: the session.proxies it was sent with
  \* the latest _set_proxy call made by configure() or rotate() outside a fetch
  actUrl, actPrev, actOk,
  actNote,               \* rotate() was called while a fetch call awaited line 272
  \* parse_main_page, _extract_listings and _parse_listing_item applied to a page
  ppc,                   \* "none", or "input" / "done" while a page is processed
  home,                  \* the anchors of the home page, in document order
  found,                 \* the categories parse_main_page returns for it
  rows,                  \* the <tr> elements of a category page, in document order
  listings,              \* the list _extract_listings returns for them
  item,                  \* an item container given to _parse_listing_item
  listing,               \* the record _parse_listing_item builds for it
  outcome,               \* how the page function ended: "returned", "KeyError", "None"
  \* rotate() call window
  rotStart, rotCount,
  \* time (saturating at Delay) since the last GET / since the last fetch returned
  sinceGet, sinceCall,
  lastNet,               \* URL of the latest network retrieval (GET or navigation)
  \* get_rendered_html
  rurl, rres,
  browsers,              \* browser sessions created and not quit
  \* full_parse locals and per-session observations
  categories, cat_i, parsed_categories, total_listings, sres,
  listings_len,          \* len(listings) of the parse_category call that is returning
  attempted, faulted, catNotified, summarySent

cfgVars == <<config, has_socks, robots_parser, proxy_list>>
proxyVars == <<current_proxy_index, proxies>>
callVars == <<furl, proxy_attempt, max_proxy_retries, old_proxies, fres,
              gets, fails, rots, notes, allTransport, reqFault, getAfterReq,
              fromLoop, index0, proxies0, tried>>
actVars == <<actUrl, actPrev, actOk, actNote>>
pureVars == <<ppc, home, found, rows, listings, item, listing, outcome>>
rotVars == <<rotStart, rotCount>>
timeVars == <<sinceGet, sinceCall>>
renderVars == <<rurl, rres>>
sessVars == <<categories, cat_i, parsed_categories, total_listings, sres,
              attempted, faulted, catNotified, summarySent, listings_len>>
vars == <<cfgVars, proxyVars, pc, caller, callVars, actVars, pureVars, rotVars, timeVars, lastNet,
          renderVars, browsers, sessVars>>

\* ------------------------------------------------------- proxy management
\* _set_proxy: the proxies in effect afterwards and the returned flag.
SetProxyUnchecked(cur, proxy_url, socks_ok) == [ok |-> TRUE, proxies |-> proxy_url]
SetProxy(cur, proxy_url, socks_ok) ==
  IF proxy_url \in SocksProxies /\ ~socks_ok
  THEN [ok |-> FALSE, proxies |-> cur]
  ELSE [ok |-> TRUE, proxies |-> proxy_url]

\* _setup_proxy on a configuration record.
ConfiguredListAlways(cfg) ==
  IF cfg.proxy_list # << >> THEN cfg.proxy_list
  ELSE (IF cfg.proxy_http # "" THEN <<cfg.proxy_http>> ELSE << >>)
       \o (IF cfg.proxy_https # "" THEN <<cfg.proxy_https>> ELSE << >>)
       \o (IF cfg.proxy_socks # "" THEN <<cfg.proxy_socks>> ELSE << >>)
ConfiguredList(cfg) ==
  IF ~cfg.proxy_enabled THEN << >>
  ELSE IF cfg.proxy_list # << >> THEN cfg.proxy_list
  ELSE (IF cfg.proxy_http # "" THEN <<cfg.proxy_http>> ELSE << >>)
       \o (IF cfg.proxy_https # "" THEN <<cfg.proxy_https>> ELSE << >>)
       \o (IF cfg.proxy_socks # "" THEN <<cfg.proxy_socks>> ELSE << >>)

SetupProxy(cfg, socks_ok) ==
  LET l == ConfiguredList(cfg) IN
  [list |-> l,
   proxies |-> IF l # << >> THEN SetProxy(NoProxy, l[1], socks_ok).proxies ELSE NoProxy]

NextIndexNoWrap(i, K) == Min(i + 1, K - 1)
NextIndex(i, K) == (i + 1) % K

\* _rotate_proxy: returned flag, new index, proxies in effect.
RotateProxy(list, i, cur, socks_ok) ==
  IF Len(list) <= 1
  THEN [ok |-> FALSE, index |-> i, proxies |-> cur]
  ELSE LET j == NextIndex(i, Len(list))
           s == SetProxy(cur, list[j + 1], socks_ok)
       IN [ok |-> s.ok, index |-> j, proxies |-> s.proxies]

\* _can_fetch
CanFetchAlways(rp, url) == TRUE
CanFetch(rp, url) == IF ~rp.loaded THEN TRUE ELSE url \notin rp.disallow

\* ---------------------------------------------------------------- fetch
MaxProxyRetriesShort(list) == IF Len(list) > 1 THEN Len(list) - 1 ELSE 1
MaxProxyRetries(list) == IF Len(list) > 0 THEN Len(list) ELSE 1

\* except clauses of the proxy loop (lines 247, 255), in order
LoopHandler(f) ==
  IF Mro(f) \cap {"ProxyError", "ConnectionError"} # {} THEN "transport"
  ELSE IF "RequestException" \in Mro(f) THEN "request"
  ELSE "escape"

\* except clause of the direct attempt (line 268)
DirectHandlerNarrow(f) == IF "HTTPError" \in Mro(f) THEN "caught" ELSE "escape"
DirectHandler(f) == IF "RequestException" \in Mro(f) THEN "caught" ELSE "escape"

\* line 259: whether the direct attempt is made once the loop is left
UseDirectFallback(cur, enabled) == cur # NoProxy /\ enabled

\* line 272: messages sent when the call ends unresolved
FailureNotificationsNone(n) == n
FailureNotifications(n) == n + 1

\* a time counter after d more time units
Elapse(c, d) == Min(c + d, Delay)

\* @rate_limiter(delay): how long the wrapper sleeps before calling _fetch_page
RateLimiterWait(since) == IF since < Delay THEN Delay - since ELSE 0

\* one more call of _rotate_proxy in the current run of calls; a run is restarted
\* after as many calls as the pool has entries, and when fetch(url) returns
RotWindow(called) ==
  LET W == IF Len(proxy_list) > 0 THEN Len(proxy_list) ELSE 1 IN
  IF ~called THEN UNCHANGED rotVars
  ELSE IF rotCount >= W
       THEN rotStart' = current_proxy_index /\ rotCount' = 1
       ELSE rotStart' = rotStart /\ rotCount' = rotCount + 1

\* the locals of a finished _fetch_page call are gone
ClearCall ==
  /\ furl' = base_url /\ proxy_attempt' = 0 /\ max_proxy_retries' = 1
  /\ old_proxies' = NoProxy /\ fres' = "pending"
  /\ gets' = 0 /\ fails' = 0 /\ rots' = 0 /\ notes' = 0
  /\ allTransport' = TRUE /\ reqFault' = FALSE /\ getAfterReq' = FALSE
  /\ fromLoop' = FALSE /\ index0' = 0 /\ proxies0' = NoProxy /\ tried' = << >>

ClearRender == rurl' = "" /\ rres' = "pending"

ClearSession ==
  /\ categories' = << >> /\ cat_i' = 0 /\ parsed_categories' = 0
  /\ total_listings' = 0 /\ sres' = "none"
  /\ attempted' = {} /\ faulted' = {} /\ catNotified' = {} /\ summarySent' = FALSE
  /\ listings_len' = 0

ClearAct == actUrl' = "" /\ actPrev' = NoProxy /\ actOk' = FALSE /\ actNote' = FALSE

\* a caller outside the session invokes fetch(url)
FetchCall(url) ==
  /\ pc = "idle"
  /\ pc' = "fetch_wait" /\ caller' = "user" /\ furl' = url
  /\ ClearAct
  /\ UNCHANGED <<cfgVars, pureVars, proxyVars, proxy_attempt, max_proxy_retries, old_proxies,
                 fres, gets, fails, rots, notes, allTransport, reqFault, getAfterReq,
                 fromLoop, index0, proxies0, tried, rotVars, timeVars, lastNet,
                 renderVars, browsers, sessVars>>

\* wrapper of @rate_limiter, then lines 236-240 of _fetch_page; the rotate()
\* call observed before the body runs is forgotten, the body activates
\* proxies of its own
FetchEnter ==
  /\ pc = "fetch_wait"
  /\ sinceGet' = Elapse(sinceGet, RateLimiterWait(sinceCall))
  /\ max_proxy_retries' = MaxProxyRetries(proxy_list)
  /\ index0' = current_proxy_index /\ proxies0' = proxies
  /\ IF CanFetch(robots_parser, furl)
     THEN pc' = "fetch_get" /\ fres' = "pending"
          /\ sinceCall' = Elapse(sinceCall, RateLimiterWait(sinceCall))
     ELSE pc' = "fetch_ret" /\ fres' = "unavailable" /\ sinceCall' = 0
  /\ ClearAct
  /\ UNCHANGED <<cfgVars, pureVars, proxyVars, caller, furl, proxy_attempt, old_proxies,
                 gets, fails, rots, notes, allTransport, reqFault, getAfterReq,
                 fromLoop, tried, rotVars, lastNet,
                 renderVars, browsers, sessVars>>

\* one pass of the proxy loop, lines 242-257, and the code after the loop up
\* to the direct GET, the return of the response, or the await of line 272
FetchGet(o) ==
  /\ pc = "fetch_get"
  /\ LET h == IF o = "ok" THEN "return" ELSE LoopHandler(o)
         called == h = "transport" /\ config.proxy_rotate
         rot == IF called
                THEN RotateProxy(proxy_list, current_proxy_index, proxies, has_socks)
                ELSE [ok |-> FALSE, index |-> current_proxy_index, proxies |-> proxies]
         more == called /\ rot.ok /\ proxy_attempt + 1 < max_proxy_retries
         exit == h \in {"transport", "request"} /\ ~more
         direct == exit /\ UseDirectFallback(rot.proxies, config.proxy_enabled)
         failed == exit /\ ~direct
     IN /\ current_proxy_index' = rot.index
        /\ proxies' = IF direct THEN NoProxy ELSE rot.proxies
        /\ old_proxies' = IF direct THEN rot.proxies ELSE old_proxies
        /\ proxy_attempt' = IF more THEN proxy_attempt + 1 ELSE proxy_attempt
        /\ pc' = CASE more -> "fetch_get"
                    [] direct -> "fetch_direct"
                    [] failed -> "fetch_note"
                    [] OTHER -> "fetch_ret"
        /\ fres' = CASE h = "return" -> "response"
                     [] h = "escape" -> "raised"
                     [] failed -> "unavailable"
                     [] OTHER -> "pending"
        /\ notes' = IF failed THEN FailureNotifications(notes) ELSE notes
        /\ fromLoop' = (h = "return")
        /\ fails' = IF o = "ok" THEN fails ELSE fails + 1
        /\ rots' = IF called /\ rot.ok THEN rots + 1 ELSE rots
        /\ allTransport' = (allTransport /\ h \in {"return", "transport"})
        /\ reqFault' = (reqFault \/ h = "request")
        /\ sinceCall' = IF more \/ direct THEN sinceCall ELSE 0
        /\ RotWindow(called)
  /\ gets' = gets + 1
  /\ tried' = Append(tried, proxies)
  /\ getAfterReq' = (getAfterReq \/ reqFault)
  /\ sinceGet' = 0
  /\ lastNet' = furl
  /\ UNCHANGED <<cfgVars, pureVars, actVars, caller, furl, max_proxy_retries, index0, proxies0,
                 renderVars, browsers, sessVars>>

\* line 270: the proxies put back after a failed direct GET
RestoreProxiesForgotten(old, cur) == cur
RestoreProxies(old, cur) == old

\* the attempt without proxy, lines 264-270, up to the return of the
\* response or the await of line 272
FetchDirect(o) ==
  /\ pc = "fetch_direct"
  /\ LET h == IF o = "ok" THEN "return" ELSE DirectHandler(o) IN
        /\ proxies' = IF h = "caught" THEN RestoreProxies(old_proxies, proxies) ELSE proxies
        /\ fres' = CASE h = "return" -> "response"
                     [] h = "escape" -> "raised"
                     [] OTHER -> "unavailable"
        /\ notes' = IF h = "caught" THEN FailureNotifications(notes) ELSE notes
        /\ fails' = IF o = "ok" THEN fails ELSE fails + 1
        /\ pc' = IF h = "caught" THEN "fetch_note" ELSE "fetch_ret"
  /\ gets' = gets + 1
  /\ tried' = Append(tried, proxies)
  /\ getAfterReq' = (getAfterReq \/ reqFault)
  /\ sinceGet' = 0
  /\ sinceCall' = 0
  /\ lastNet' = furl
  /\ UNCHANGED <<cfgVars, pureVars, actVars, current_proxy_index, caller, furl, proxy_attempt,
                 max_proxy_retries, old_proxies, rots, allTransport, reqFault,
                 fromLoop, index0, proxies0, rotVars, renderVars, browsers, sessVars>>

\* the send_message of line 272 is done; line 273 returns None
FetchNotified ==
  /\ pc = "fetch_note"
  /\ pc' = "fetch_ret"
  /\ UNCHANGED <<cfgVars, pureVars, actVars, proxyVars, caller, callVars, rotVars, timeVars,
                 lastNet, renderVars, browsers, sessVars>>

\* fetch(url) hands its result back to a caller outside the session
FetchReturn ==
  /\ pc = "fetch_ret" /\ caller = "user"
  /\ pc' = "idle"
  /\ ClearCall
  /\ lastNet' = ""
  /\ rotStart' = current_proxy_index /\ rotCount' = 0
  /\ UNCHANGED <<cfgVars, pureVars, actVars, proxyVars, caller, timeVars,
                 renderVars, browsers, sessVars>>

\* a task of the parser is suspended in an await: in the wrapper of
\* @rate_limiter or in the send_message calls before _fetch_page (lines 233,
\* 429, 527), in the send_message of lines 272, 520, 384, 391, 419, 549, 564
\* and 576, or in the sleep of line 545
Suspended ==
  \/ pc \in {"fetch_wait", "fetch_note", "main_msg", "cat_msg", "cat_fault", "cat_sleep",
             "sess_done"}
  \/ pc = "render_call" /\ caller = "session"

\* _rotate_proxy() called from outside: while no operation runs, or by
\* another task while an operation is suspended
Rotate ==
  /\ pc = "idle" \/ Suspended
  /\ LET rot == RotateProxy(proxy_list, current_proxy_index, proxies, has_socks) IN
        /\ current_proxy_index' = rot.index
        /\ proxies' = rot.proxies
        /\ IF Len(proxy_list) > 1
           THEN /\ actUrl' = proxy_list[rot.index + 1]
                /\ actPrev' = proxies
                /\ actOk' = rot.ok
                /\ actNote' = (actNote \/ pc = "fetch_note")
           ELSE UNCHANGED actVars
  /\ RotWindow(TRUE)
  /\ UNCHANGED <<cfgVars, pureVars, pc, caller, callVars, timeVars, lastNet,
                 renderVars, browsers, sessVars>>

\* time passes
Clock ==
  /\ pc # "cat_sleep"
  /\ sinceGet < Delay \/ sinceCall < Delay
  /\ sinceGet' = Elapse(sinceGet, 1) /\ sinceCall' = Elapse(sinceCall, 1)
  /\ UNCHANGED <<cfgVars, pureVars, actVars, proxyVars, pc, caller, callVars, rotVars, lastNet,
                 renderVars, browsers, sessVars>>

\* --------------------------------------------------------------- render
DriverOutcomes == {"ok", "fault"}
PageOutcomes == {"ok", "navigation_fault", "page_source_fault"}

\* lines 39-43: browser sessions left open by the rest of get_rendered_html
AfterPage(o, n) == IF o = "ok" THEN n - 1 ELSE n

\* a caller outside the session invokes render(url)
RenderCall(url) ==
  /\ pc = "idle"
  /\ pc' = "render_call" /\ caller' = "user" /\ rurl' = url
  /\ UNCHANGED <<cfgVars, pureVars, actVars, proxyVars, callVars, rotVars, timeVars, lastNet,
                 rres, browsers, sessVars>>

\* lines 31-37: options, webdriver.Chrome(options=options)
RenderEnter(o) ==
  /\ pc = "render_call"
  /\ browsers < MaxBrowsers
  /\ IF o = "ok"
     THEN pc' = "render_nav" /\ browsers' = browsers + 1 /\ rres' = "pending"
     ELSE pc' = "render_ret" /\ browsers' = browsers /\ rres' = "raised"
  /\ UNCHANGED <<cfgVars, pureVars, actVars, proxyVars, caller, callVars, rotVars, timeVars, lastNet,
                 rurl, sessVars>>

\* lines 38-43: set_page_load_timeout, get, sleep, page_source, quit
RenderPage(o) ==
  /\ pc = "render_nav"
  /\ pc' = "render_ret"
  /\ browsers' = AfterPage(o, browsers)
  /\ rres' = IF o = "ok" THEN "html" ELSE "raised"
  /\ lastNet' = rurl
  /\ LET d == IF o = "navigation_fault" THEN 0 ELSE SettleDelay IN
        sinceGet' = Elapse(sinceGet, d) /\ sinceCall' = Elapse(sinceCall, d)
  /\ UNCHANGED <<cfgVars, pureVars, actVars, proxyVars, caller, callVars, rotVars,
                 rurl, sessVars>>

\* render(url) hands its result back to a caller outside the session
RenderReturn ==
  /\ pc = "render_ret" /\ caller = "user"
  /\ pc' = "idle"
  /\ ClearRender
  /\ lastNet' = ""
  /\ UNCHANGED <<cfgVars, pureVars, actVars, proxyVars, caller, callVars, rotVars, timeVars,
                 browsers, sessVars>>

\* -------------------------------------------------------------- session
\* lines 484-489: deduplicate by url, first occurrence kept
Dedupe(s) ==
  LET F[i \in 0..Len(s)] ==
        IF i = 0 THEN << >>
        ELSE IF \E j \in 1..Len(F[i - 1]) : F[i - 1][j] = s[i]
             THEN F[i - 1] ELSE Append(F[i - 1], s[i])
  IN F[Len(s)]

\* lines 495-517 on the urls of the qualifying links, in cascade order
Discover(links) ==
  LET u == Dedupe(links) IN
  IF Len(u) < MinDiscovered
  THEN SubSeq(fallback_categories, 1, Min(MaxCategories, Len(fallback_categories)))
  ELSE SubSeq(u, 1, Min(MaxCategories, Len(u)))

LinkSeqs == UNION {[1..n -> DiscoveredURLs] : n \in 0..MaxLinks}
ExtractOutcomes == {"ok", "KeyError"}

\* categories[:max_categories]
Limit == Min(config.max_categories_per_session, Len(categories))

\* where an exception raised inside parse_category goes (lines 539-551)
CategoryHandlerNone(e) == "propagate"
CategoryHandler(e) == "continue"

\* full_parse up to the call of _fetch_page in parse_main_page, lines 526-531
FullParse ==
  /\ pc = "idle"
  /\ pc' = "fetch_wait" /\ caller' = "session" /\ furl' = base_url
  /\ ClearAct
  /\ UNCHANGED <<cfgVars, pureVars, proxyVars, proxy_attempt, max_proxy_retries, old_proxies,
                 fres, gets, fails, rots, notes, allTransport, reqFault, getAfterReq,
                 fromLoop, index0, proxies0, tried, rotVars, timeVars, lastNet,
                 renderVars, browsers, sessVars>>

\* the rest of parse_main_page after _fetch_page: `return []` at line 433 and
\* full_parse lines 534-538 when there is no response, else lines 435-518 up
\* to the await of line 520; an exception goes to the handler of line 574
ParseMainPage(links) ==
  /\ pc = "fetch_ret" /\ caller = "session"
  /\ IF fres = "raised"
     THEN /\ pc' = "sess_done" /\ sres' = "failed" /\ categories' = << >>
     ELSE IF fres = "response"
     THEN /\ pc' = "main_msg" /\ sres' = "none" /\ categories' = Discover(links)
     ELSE /\ pc' = "sess_loop" /\ sres' = "none" /\ categories' = << >>
  /\ cat_i' = 0 /\ parsed_categories' = 0 /\ total_listings' = 0
  /\ ClearCall
  /\ UNCHANGED <<cfgVars, pureVars, actVars, proxyVars, caller, rotVars, timeVars, lastNet,
                 renderVars, browsers, attempted, faulted, catNotified, summarySent,
                 listings_len>>

\* the send_message of line 520 is done: parse_main_page returns its
\* categories (line 522) and full_parse reaches its loop head (534-538)
MainPageDone ==
  /\ pc = "main_msg"
  /\ pc' = "sess_loop"
  /\ UNCHANGED <<cfgVars, pureVars, actVars, proxyVars, caller, callVars, rotVars, timeVars,
                 lastNet, renderVars, browsers, sessVars>>

\* loop head of full_parse and parse_category up to get_rendered_html, lines 538-388
CategoryStart ==
  /\ pc = "sess_loop" /\ cat_i < Limit
  /\ pc' = "render_call"
  /\ rurl' = categories[cat_i + 1]
  /\ attempted' = attempted \cup {cat_i}
  /\ UNCHANGED <<cfgVars, pureVars, actVars, proxyVars, caller, callVars, rotVars, timeVars, lastNet,
                 rres, browsers, categories, cat_i, parsed_categories,
                 total_listings, sres, faulted, catNotified, summarySent, listings_len>>

\* config.category_delay values explored
CategoryDelays == {0, 1, 5}

\* lines 544-545: asyncio.sleep(category_delay) after category number i of
\* the n discovered ones, unless it is the last of them
CategorySleep(i, n, delay) == IF i < n - 1 THEN delay ELSE 0

\* the rest of parse_category (lines 389-419) up to its last send_message,
\* or, when _extract_listings raises, the handler of full_parse up to its
\* send_message (lines 546-549)
ParseCategory(o, n) ==
  /\ pc = "render_ret" /\ caller = "session"
  /\ ClearRender
  /\ IF rres = "raised"
     THEN \* caught at line 389, notified at line 391, parse_category returns []
          /\ pc' = "cat_msg" /\ listings_len' = 0
          /\ faulted' = faulted \cup {cat_i}
          /\ catNotified' = catNotified \cup {cat_i}
          /\ sres' = sres
     ELSE IF o = "ok"
     THEN \* n listings extracted and saved, message of line 419
          /\ pc' = "cat_msg" /\ listings_len' = n
          /\ UNCHANGED <<faulted, catNotified, sres>>
     ELSE \* title_elem['href'] raises in _extract_listings
          /\ faulted' = faulted \cup {cat_i}
          /\ listings_len' = 0
          /\ IF CategoryHandler(o) = "continue"
             THEN /\ pc' = "cat_fault"
                  /\ catNotified' = catNotified \cup {cat_i}
                  /\ sres' = sres
             ELSE /\ pc' = "sess_done"
                  /\ catNotified' = catNotified
                  /\ sres' = "failed"
  /\ UNCHANGED <<cfgVars, pureVars, actVars, proxyVars, caller, callVars, rotVars, timeVars,
                 lastNet, browsers, categories, cat_i, parsed_categories,
                 total_listings, attempted, summarySent>>

\* line 544: asyncio.sleep is awaited after category number i of the n
\* discovered ones, unless it is the last of them
SleepsAfter(i, n) == i < n - 1

\* parse_category has returned its listings: lines 541-545 up to the sleep,
\* or up to the next loop head when there is no sleep
CategoryCount ==
  /\ pc = "cat_msg"
  /\ total_listings' = total_listings + listings_len
  /\ parsed_categories' = parsed_categories + 1
  /\ listings_len' = 0
  /\ IF SleepsAfter(cat_i, Len(categories))
     THEN pc' = "cat_sleep" /\ cat_i' = cat_i
     ELSE pc' = "sess_loop" /\ cat_i' = cat_i + 1
  /\ UNCHANGED <<cfgVars, pureVars, actVars, proxyVars, caller, callVars, rotVars, timeVars,
                 lastNet, renderVars, browsers, categories, sres, attempted,
                 faulted, catNotified, summarySent>>

\* asyncio.sleep(category_delay) of line 545 ends; next loop head
CategoryWake ==
  /\ pc = "cat_sleep"
  /\ LET slept == CategorySleep(cat_i, Len(categories), config.category_delay)
     IN /\ sinceGet' = Elapse(sinceGet, slept)
        /\ sinceCall' = Elapse(sinceCall, slept)
  /\ pc' = "sess_loop" /\ cat_i' = cat_i + 1
  /\ UNCHANGED <<cfgVars, pureVars, actVars, proxyVars, caller, callVars, rotVars,
                 lastNet, renderVars, browsers, categories, parsed_categories,
                 total_listings, sres, attempted, faulted, catNotified,
                 summarySent, listings_len>>

\* the send_message of line 549 is done; next loop head
CategoryFaultDone ==
  /\ pc = "cat_fault"
  /\ pc' = "sess_loop" /\ cat_i' = cat_i + 1
  /\ UNCHANGED <<cfgVars, pureVars, actVars, proxyVars, caller, callVars, rotVars, timeVars,
                 lastNet, renderVars, browsers, categories, parsed_categories,
                 total_listings, sres, attempted, faulted, catNotified,
                 summarySent, listings_len>>

\* lines 553-572: summary and result
SessionEnd ==
  /\ pc = "sess_loop" /\ cat_i >= Limit
  /\ pc' = "sess_done"
  /\ summarySent' = TRUE
  /\ sres' = "success"
  /\ UNCHANGED <<cfgVars, pureVars, actVars, proxyVars, caller, callVars, rotVars, timeVars, lastNet,
                 renderVars, browsers, categories, cat_i, parsed_categories,
                 total_listings, attempted, faulted, catNotified, listings_len>>

\* full_parse hands its result back
SessionReturn ==
  /\ pc = "sess_done"
  /\ pc' = "idle" /\ caller' = "user"
  /\ ClearSession
  /\ lastNet' = ""
  /\ UNCHANGED <<cfgVars, pureVars, actVars, proxyVars, callVars, rotVars, timeVars,
                 renderVars, browsers>>

\* ------------------------------------------------------------ discovery
\* parse_main_page on the anchors of the fetched home page, lines 445-518.
\* An anchor: its href attribute, its text, its own class, and the tags and
\* classes of its ancestors.
category_selectors ==
  << "a[href*=\"/cat-\"]", "a[href*=\"/category/\"]", "a[href*=\"/cat/\"]",
     "a[href*=\"/section/\"]", "a[href*=\"/region/\"]", "a[href*=\"/city/\"]",
     ".category-link", "[class*=\"category\"] a", "nav a", ".menu a", "a" >>

SkipWords == {"mailto:", "tel:", "javascript:", "#", "login", "register", "search"}

AnchorSeq ==
  << [href |-> "/page/5/", text |-> " Jobs ", cls |-> "", anc |-> {}],
     [href |-> "https://www.doski.ru/page/5/", text |-> "Work", cls |-> "", anc |-> {"nav"}],
     [href |-> "/cat-1/", text |-> "Cars", cls |-> "", anc |-> {}],
     [href |-> "/cat-2/", text |-> "Flats", cls |-> "", anc |-> {"nav"}],
     [href |-> "/region/3/", text |-> "Moscow", cls |-> "", anc |-> {".menu"}],
     [href |-> "/page/4/", text |-> "Pets", cls |-> "category-link", anc |-> {}],
     [href |-> "/page/6/", text |-> "Kids", cls |-> "", anc |-> {".category-box"}],
     [href |-> "/Login", text |-> "Sign in", cls |-> "", anc |-> {"nav"}],
     [href |-> "/page/9/", text |-> "ab", cls |-> "", anc |-> {".menu"}],
     [href |-> "http://", text |-> "Other", cls |-> "", anc |-> {}] >>
Anchors == {AnchorSeq[i] : i \in 1..Len(AnchorSeq)}

\* the modelled home pages list anchors in the order of AnchorSeq or in the
\* opposite order
Pos(a) == CHOOSE i \in 1..Len(AnchorSeq) : AnchorSeq[i] = a
Ordered(page) ==
  \/ \A i \in 1..(Len(page) - 1) : Pos(page[i]) < Pos(page[i + 1])
  \/ \A i \in 1..(Len(page) - 1) : Pos(page[i]) > Pos(page[i + 1])

\* str.lower() and str.strip() on the strings of the modelled pages
Lower(h) == IF h = "/Login" THEN "/login" ELSE h
Strip(t) ==
  CASE t = " Jobs " -> "Jobs"
    [] t = " Sofa " -> "Sofa"
    [] t \in {" ", "  "} -> ""
    [] OTHER -> t

\* the searched substrings (selector patterns and skip words) that occur in h
Parts(h) ==
  CASE h \in {"/cat-1/", "/cat-2/"} -> {"/cat-"}
    [] h = "/region/3/" -> {"/region/"}
    [] h = "/login" -> {"login"}
    [] OTHER -> {}

\* whether the element matches the CSS selector
Select(sel, a) ==
  CASE sel = "a[href*=\"/cat-\"]" -> "/cat-" \in Parts(a.href)
    [] sel = "a[href*=\"/category/\"]" -> "/category/" \in Parts(a.href)
    [] sel = "a[href*=\"/cat/\"]" -> "/cat/" \in Parts(a.href)
    [] sel = "a[href*=\"/section/\"]" -> "/section/" \in Parts(a.href)
    [] sel = "a[href*=\"/region/\"]" -> "/region/" \in Parts(a.href)
    [] sel = "a[href*=\"/city/\"]" -> "/city/" \in Parts(a.href)
    [] sel = ".category-link" -> a.cls = "category-link"
    [] sel = "[class*=\"category\"] a" ->
         a.anc \cap {".category-box", ".category-link"} # {}
    [] sel = "nav a" -> "nav" \in a.anc
    [] sel = ".menu a" -> ".menu" \in a.anc
    [] sel = "a" -> TRUE

\* lines 464-467: the filter on href and text
Qualifies(a) ==
  LET href == a.href
      text == Strip(a.text)
  IN /\ href # "" /\ text # "" /\ Len(text) > 2 /\ Len(text) < 50
     /\ ~ \E skip \in SkipWords : skip \in Parts(Lower(href))

\* lines 460-472 for one selector
LinksOf(sel, page) ==
  LET Keep(a) == Select(sel, a) /\ Qualifies(a)
      f == SelectSeq(page, Keep)
  IN [i \in 1..Len(f) |->
        [href |-> f[i].href, text |-> Strip(f[i].text), selector |-> sel]]

\* lines 459-472: all_links
AllLinks(page) ==
  LET F[k \in 0..Len(category_selectors)] ==
        IF k = 0 THEN << >>
        ELSE F[k - 1] \o LinksOf(category_selectors[k], page)
  IN F[Len(category_selectors)]

\* urllib.parse.urljoin(base, href) on the hrefs of the modelled pages
AbsoluteHrefs ==
  {"https://www.doski.ru/page/5/", "https://www.doski.ru/item/102.html", "http://"}
UrlJoin(base, href) == IF href \in AbsoluteHrefs THEN href ELSE base \o href

\* utils.validate_url: a URL with a scheme and a host
ValidateUrl(url) == url # "http://"

\* lines 474-482: categories
Categories(all_links) ==
  LET Valid(l) == ValidateUrl(UrlJoin(base_url, l.href))
      f == SelectSeq(all_links, Valid)
  IN [i \in 1..Len(f) |->
        [name |-> f[i].text, url |-> UrlJoin(base_url, f[i].href),
         found_by |-> f[i].selector]]

\* lines 484-489: unique_categories
UniqueCategoriesKeepLast(cats) ==
  LET Keep(i) == ~ \E j \in (i + 1)..Len(cats) : cats[j].url = cats[i].url
      F[i \in 0..Len(cats)] ==
        IF i = 0 THEN << >>
        ELSE LET kept == F[i - 1] IN
             IF Keep(i) THEN Append(kept, cats[i]) ELSE kept
  IN F[Len(cats)]
UniqueCategories(cats) ==
  LET F[i \in 0..Len(cats)] ==
        IF i = 0 THEN << >>
        ELSE LET seen == F[i - 1] IN
             IF \E j \in 1..Len(seen) : seen[j].url = cats[i].url
             THEN seen ELSE Append(seen, cats[i])
  IN F[Len(cats)]

\* lines 498-512: the built-in categories (names transliterated)
FallbackNames ==
  << "Nedvizhimost - Kvartiry prodazha", "Nedvizhimost - Kvartiry arenda",
     "Transport - Legkovye avto", "Nedvizhimost - Doma prodazha",
     "Detskie tovary", "Zhivotnye - Sobaki", "Odezhda zhenskaya",
     "Rabota - Vakansii" >>
FallbackRecords ==
  [i \in 1..Len(fallback_categories) |->
     [name |-> FallbackNames[i], url |-> base_url \o fallback_categories[i]]]

\* lines 495-517: which list is returned
UseFallbackNever(unique) == FALSE
UseFallback(unique) == Len(unique) < MinDiscovered

\* lines 445-518 of parse_main_page
ParseMainPageResult(page) ==
  LET unique == UniqueCategories(Categories(AllLinks(page))) IN
  IF UseFallback(unique)
  THEN SubSeq(FallbackRecords, 1, Min(MaxCategories, Len(FallbackRecords)))
  ELSE SubSeq(unique, 1, Min(MaxCategories, Len(unique)))

\* one more anchor on the home page handed to discovery
AddAnchor(a) ==
  /\ ppc = "input" /\ Len(home) < MaxAnchors
  /\ Ordered(Append(home, a))
  /\ home' = Append(home, a)
  /\ UNCHANGED <<cfgVars, proxyVars, pc, caller, callVars, actVars, rotVars,
                 timeVars, lastNet, renderVars, browsers, sessVars, ppc, found,
                 rows, listings, item, listing, outcome>>

\* parse_main_page run on the page
DiscoverPage ==
  /\ ppc = "input"
  /\ found' = ParseMainPageResult(home)
  /\ ppc' = "done"
  /\ UNCHANGED <<cfgVars, proxyVars, pc, caller, callVars, actVars, rotVars,
                 timeVars, lastNet, renderVars, browsers, sessVars, home,
                 rows, listings, item, listing, outcome>>

\* ----------------------------------------------------------- extraction
\* _extract_listings on the <tr> elements of a page, lines 287-319.
\* A row: the class of its table, whether it holds an <a class="sbj">, that
\* anchor's text and href, the text of its right-aligned bold cell, and the
\* text node after the first <br> following the anchor.
NoAttr == "<no attribute>"
NoElem == "<no element>"
TableRows ==
  { [tbl |-> "ml", sbj |-> TRUE, text |-> "Bike", href |-> "/item/101.html",
     price |-> "100", desc |-> " as new "],
    [tbl |-> "ml", sbj |-> TRUE, text |-> " Sofa ",
     href |-> "https://www.doski.ru/item/102.html", price |-> NoElem, desc |-> NoElem],
    [tbl |-> "ml", sbj |-> FALSE, text |-> "", href |-> NoAttr,
     price |-> NoElem, desc |-> NoElem],
    [tbl |-> "ml", sbj |-> TRUE, text |-> "  ", href |-> "/item/104.html",
     price |-> "5", desc |-> NoElem],
    [tbl |-> "ml", sbj |-> TRUE, text |-> "Lamp", href |-> NoAttr,
     price |-> NoElem, desc |-> NoElem],
    [tbl |-> "other", sbj |-> TRUE, text |-> "Desk", href |-> "/item/106.html",
     price |-> NoElem, desc |-> NoElem] }

\* url.split('/')[-1].split('.')[0]
IdOf(url) ==
  CASE url = "https://www.doski.ru/item/101.html" -> "101"
    [] url = "https://www.doski.ru/item/102.html" -> "102"
    [] url = "https://www.doski.ru/item/104.html" -> "104"
    [] url = "https://www.doski.ru/item/106.html" -> "106"
    [] OTHER -> ""

\* the text of an optional element, stripped, "" when there is none
TextOf(e) == IF e = NoElem THEN "" ELSE Strip(IF e = " as new " THEN "as new" ELSE e)

\* line 287: soup.select('table.ml tr')
RowsOfAnyTable(page) == page
RowsOf(page) == LET InMl(r) == r.tbl = "ml" IN SelectSeq(page, InMl)

\* lines 289-291: rows without a title anchor are skipped
IsListingRow(r) == r.sbj

\* lines 293-318: the record appended for a row
ListingOfRow(r) ==
  LET url == UrlJoin(base_url, r.href) IN
  [id |-> IdOf(url), title |-> Strip(r.text), url |-> url,
   price |-> TextOf(r.price), description |-> TextOf(r.desc)]

\* lines 283-319 of _extract_listings
ExtractListings(page) ==
  LET f == SelectSeq(RowsOf(page), IsListingRow) IN
  IF \E i \in 1..Len(f) : f[i].href = NoAttr
  THEN [outcome |-> "KeyError", listings |-> << >>]
  ELSE [outcome |-> "returned",
        listings |-> [i \in 1..Len(f) |-> ListingOfRow(f[i])]]

\* one more row on the category page handed to extraction
AddRow(r) ==
  /\ ppc = "input" /\ Len(rows) < MaxRows
  /\ rows' = Append(rows, r)
  /\ UNCHANGED <<cfgVars, proxyVars, pc, caller, callVars, actVars, rotVars,
                 timeVars, lastNet, renderVars, browsers, sessVars, ppc, home,
                 found, listings, item, listing, outcome>>

\* _extract_listings run on the page
ExtractPage ==
  /\ ppc = "input"
  /\ listings' = ExtractListings(rows).listings
  /\ outcome' = ExtractListings(rows).outcome
  /\ ppc' = "done"
  /\ UNCHANGED <<cfgVars, proxyVars, pc, caller, callVars, actVars, rotVars,
                 timeVars, lastNet, renderVars, browsers, sessVars, home, found,
                 rows, item, listing>>

\* _parse_listing_item on an item container, lines 321-379.
\* An item: for each selector the text of the first element it matches (or
\* NoElem), the href of the first <a href>, and the src of each <img src>.
title_selectors == << "h2", "h3", ".title", "[class*=\"title\"]", "a" >>
price_selectors == << ".price", "[class*=\"price\"]", "[class*=\"cost\"]" >>
location_selectors == << ".location", "[class*=\"location\"]", "[class*=\"city\"]" >>
desc_selectors == << ".description", ".desc", "[class*=\"description\"]" >>

Range(q) == {q[i] : i \in 1..Len(q)}
LongText == "<a text of 250 characters>"
Truncate200(t) == IF t = LongText THEN "<its first 200 characters>" ELSE t

TitleMatches ==
  { m \in [Range(title_selectors) -> {NoElem, " ", "Bike"}] :
      m[".title"] # NoElem => m["[class*=\"title\"]"] # NoElem }
PriceMatches ==
  { [s \in Range(price_selectors) |-> NoElem],
    (".price" :> " ") @@ ("[class*=\"price\"]" :> " ") @@ ("[class*=\"cost\"]" :> "10"),
    (".price" :> NoElem) @@ ("[class*=\"price\"]" :> "20") @@ ("[class*=\"cost\"]" :> "10") }
LocationMatches ==
  { [s \in Range(location_selectors) |-> NoElem],
    (".location" :> NoElem) @@ ("[class*=\"location\"]" :> NoElem)
      @@ ("[class*=\"city\"]" :> "Moscow") }
DescMatches ==
  { [s \in Range(desc_selectors) |-> NoElem],
    (".description" :> NoElem) @@ (".desc" :> LongText)
      @@ ("[class*=\"description\"]" :> NoElem),
    (".description" :> " ") @@ (".desc" :> "short")
      @@ ("[class*=\"description\"]" :> " ") }
ImageLists == { << >>, <<"http://", "/img/1.jpg">> }
Items ==
  { it \in [title : TitleMatches, href : {NoAttr, "/item/7"}, price : PriceMatches,
            location : LocationMatches, desc : DescMatches, imgs : ImageLists] :
      it.href # NoAttr => it.title["a"] # NoElem }
NoItem == CHOOSE it \in Items :
            /\ it.href = NoAttr /\ it.imgs = << >>
            /\ \A s \in Range(title_selectors) : it.title[s] = NoElem
            /\ \A s \in Range(price_selectors) : it.price[s] = NoElem
            /\ \A s \in Range(location_selectors) : it.location[s] = NoElem
            /\ \A s \in Range(desc_selectors) : it.desc[s] = NoElem

\* lines 323-333: the record before any field is resolved
EmptyListing ==
  [id |-> "None", title |-> "", description |-> "", price |-> "", location |-> "",
   date |-> "", url |-> "", images |-> << >>]

\* the loops at lines 335-340, 346-365: the text of the element matched by
\* the first selector that matches any element
Cascade(selectors, m) ==
  LET hit == {k \in 1..Len(selectors) : m[selectors[k]] # NoElem} IN
  IF hit = {} THEN ""
  ELSE Strip(m[selectors[CHOOSE k \in hit : \A j \in hit : k <= j]])

\* lines 367-371: images
ImagesOf(srcs) ==
  LET urls == [i \in 1..Len(srcs) |-> UrlJoin(base_url, srcs[i])] IN
  SelectSeq(urls, ValidateUrl)

\* str(hash(title))[:10]: the hash of a str differs from one process to the next
HashIds == {"-123456789", "9876543210"}

\* line 373: [part for part in url.split('/') if part][-1]
LastPart(url) == IF url = "https://www.doski.ru/item/7" THEN "7" ELSE "None"

\* line 379: whether the record is returned
Returned(r) == r.title # ""

\* lines 321-379 of _parse_listing_item, hid the value of str(hash(title))[:10]
ParseListingItemRecord(it, hid) ==
  LET title == Cascade(title_selectors, it.title)
      url == IF it.href # NoAttr THEN UrlJoin(base_url, it.href) ELSE ""
  IN [id |-> IF url # "" THEN LastPart(url) ELSE IF title # "" THEN hid ELSE "None",
      title |-> title,
      description |-> Truncate200(Cascade(desc_selectors, it.desc)),
      price |-> Cascade(price_selectors, it.price),
      location |-> Cascade(location_selectors, it.location),
      date |-> "", url |-> url, images |-> ImagesOf(it.imgs)]

\* _parse_listing_item run on the item
ParseListingItem(hid) ==
  /\ ppc = "input"
  /\ listing' = ParseListingItemRecord(item, hid)
  /\ outcome' = IF Returned(ParseListingItemRecord(item, hid)) THEN "returned" ELSE "None"
  /\ ppc' = "done"
  /\ UNCHANGED <<cfgVars, proxyVars, pc, caller, callVars, actVars, rotVars,
                 timeVars, lastNet, renderVars, browsers, sessVars, home, found,
                 rows, listings, item>>

\* ----------------------------------------------------------------- init
Configs ==
  [proxy_enabled : BOOLEAN, proxy_rotate : BOOLEAN, proxy_list : Pools,
   proxy_http : {""} \cup HttpProxies, proxy_https : {""} \cup HttpProxies,
   proxy_socks : {""} \cup SocksProxies, max_categories_per_session : 1..MaxCap,
   category_delay : CategoryDelays]

\* DoskiParser.__init__
InitParser ==
  /\ \E cfg \in Configs, socks_ok \in BOOLEAN :
        /\ config = [proxy_enabled |-> cfg.proxy_enabled,
                     proxy_rotate |-> cfg.proxy_rotate,
                     max_categories_per_session |-> cfg.max_categories_per_session,
                     category_delay |-> cfg.category_delay]
        /\ has_socks = socks_ok
        /\ proxy_list = SetupProxy(cfg, socks_ok).list
        /\ proxies = SetupProxy(cfg, socks_ok).proxies
        /\ actUrl = IF proxy_list = << >> THEN "" ELSE proxy_list[1]
        /\ actPrev = NoProxy
        /\ actOk = (proxy_list # << >> /\ SetProxy(NoProxy, proxy_list[1], socks_ok).ok)
        /\ actNote = FALSE
  /\ current_proxy_index = 0
  /\ \E loaded \in BOOLEAN, rules \in RobotsRules :
        robots_parser = [loaded |-> loaded, disallow |-> IF loaded THEN rules ELSE {}]
  /\ pc = "idle" /\ caller = "user"
  /\ furl = base_url /\ proxy_attempt = 0 /\ max_proxy_retries = 1
  /\ old_proxies = NoProxy /\ fres = "pending"
  /\ gets = 0 /\ fails = 0 /\ rots = 0 /\ notes = 0
  /\ allTransport = TRUE /\ reqFault = FALSE /\ getAfterReq = FALSE /\ fromLoop = FALSE
  /\ index0 = 0 /\ proxies0 = NoProxy /\ tried = << >>
  /\ rotStart = 0 /\ rotCount = 0
  /\ sinceGet = Delay /\ sinceCall = Delay
  /\ lastNet = ""
  /\ rurl = "" /\ rres = "pending" /\ browsers = 0
  /\ categories = << >> /\ cat_i = 0 /\ parsed_categories = 0
  /\ total_listings = 0 /\ sres = "none"
  /\ attempted = {} /\ faulted = {} /\ catNotified = {} /\ summarySent = FALSE
  /\ listings_len = 0

\* no page handed to the page functions
InitPure ==
  /\ ppc = "none" /\ home = << >> /\ found = << >>
  /\ rows = << >> /\ listings = << >> /\ item = NoItem /\ listing = EmptyListing
  /\ outcome = "pending"

Init == InitParser /\ InitPure

Next ==
  \/ \E url \in FetchURLs : FetchCall(url)
  \/ FetchEnter
  \/ \E o \in GetOutcomes : FetchGet(o)
  \/ \E o \in GetOutcomes : FetchDirect(o)
  \/ FetchNotified
  \/ FetchReturn
  \/ Rotate
  \/ Clock
  \/ \E url \in FetchURLs : RenderCall(url)
  \/ \E o \in DriverOutcomes : RenderEnter(o)
  \/ \E o \in PageOutcomes : RenderPage(o)
  \/ RenderReturn
  \/ FullParse
  \/ \E links \in LinkSeqs : ParseMainPage(links)
  \/ MainPageDone
  \/ CategoryStart
  \/ \E o \in ExtractOutcomes, n \in 0..MaxListings : ParseCategory(o, n)
  \/ CategoryCount
  \/ CategoryWake
  \/ CategoryFaultDone
  \/ SessionEnd
  \/ SessionReturn

Spec == Init /\ [][Next]_vars

\* fetch(url) and rotate() called directly, no session running
InitFetch == Init /\ config.max_categories_per_session = 1 /\ config.category_delay = 0
NextFetch ==
  \/ \E url \in FetchURLs : FetchCall(url)
  \/ FetchEnter
  \/ \E o \in GetOutcomes : FetchGet(o)
  \/ \E o \in GetOutcomes : FetchDirect(o)
  \/ FetchNotified
  \/ FetchReturn
  \/ Rotate
  \/ Clock
SpecFetch == InitFetch /\ [][NextFetch]_vars

\* sessions and direct render(url) calls, over three proxy configurations:
\* no proxy, one proxy, two proxies to rotate over
SessionPools == { << >>, <<"http://a">>, <<"http://a", "socks5://b">> }
InitSession == Init /\ proxy_list \in SessionPools
NextSession ==
  \/ FetchEnter
  \/ \E o \in GetOutcomes : FetchGet(o)
  \/ \E o \in GetOutcomes : FetchDirect(o)
  \/ FetchNotified
  \/ \E url \in FetchURLs : RenderCall(url)
  \/ \E o \in DriverOutcomes : RenderEnter(o)
  \/ \E o \in PageOutcomes : RenderPage(o)
  \/ RenderReturn
  \/ FullParse
  \/ \E links \in LinkSeqs : ParseMainPage(links)
  \/ MainPageDone
  \/ CategoryStart
  \/ \E o \in ExtractOutcomes, n \in 0..MaxListings : ParseCategory(o, n)
  \/ CategoryCount
  \/ CategoryWake
  \/ CategoryFaultDone
  \/ SessionEnd
  \/ SessionReturn
  \/ Rotate
SpecSession == InitSession /\ [][NextSession]_vars
\* the page functions applied to pages, one parser with proxying disabled
InitQuiet ==
  /\ InitParser
  /\ ~config.proxy_enabled /\ ~config.proxy_rotate
  /\ config.max_categories_per_session = 1 /\ config.category_delay = 0
  /\ ~has_socks /\ ~robots_parser.loaded

\* parse_main_page on home pages of up to MaxAnchors distinct anchors
InitDiscover ==
  /\ InitQuiet /\ ppc = "input" /\ home = << >> /\ found = << >>
  /\ rows = << >> /\ listings = << >> /\ item = NoItem /\ listing = EmptyListing
  /\ outcome = "pending"
NextDiscover ==
  \/ \E a \in Anchors : AddAnchor(a)
  \/ DiscoverPage
SpecDiscover == InitDiscover /\ [][NextDiscover]_vars

\* _extract_listings on category pages of up to MaxRows rows
InitExtract ==
  /\ InitQuiet /\ ppc = "input" /\ home = << >> /\ found = << >>
  /\ rows = << >> /\ listings = << >> /\ item = NoItem /\ listing = EmptyListing
  /\ outcome = "pending"
NextExtract ==
  \/ \E r \in TableRows : AddRow(r)
  \/ ExtractPage
SpecExtract == InitExtract /\ [][NextExtract]_vars

\* _parse_listing_item on one item container
InitItem ==
  /\ InitQuiet /\ ppc = "input" /\ home = << >> /\ found = << >>
  /\ rows = << >> /\ listings = << >> /\ item \in Items /\ listing = EmptyListing
  /\ outcome = "pending"
NextItem == \E hid \in HashIds : ParseListingItem(hid)
SpecItem == InitItem /\ [][NextItem]_vars

\* ================================================================ claims
\* the robots policy disallows the url
Denied(url) == robots_parser.loaded /\ url \in robots_parser.disallow
\* every pool entry can be activated on this transport
AllActivatable ==
  \A i \in 1..Len(proxy_list) : proxy_list[i] \notin SocksProxies \/ has_socks
InFetch == pc \in {"fetch_get", "fetch_direct", "fetch_note", "fetch_ret"}

\* C1: with rotation enabled and K >= 2 activatable proxies, while every failed
\* GET of the call was a transport fault, after j < K failures the call has
\* rotated j times and is about to GET through pool entry (start + j) mod K;
\* a response returned by that GET comes after exactly j rotations and j+1 GETs.
C1_FetchResilience ==
  LET K == Len(proxy_list) IN
  (InFetch /\ config.proxy_rotate /\ K >= 2 /\ AllActivatable /\ allTransport
     /\ ~Denied(furl))
  => /\ (fres = "pending" /\ fails < K)
          => /\ pc = "fetch_get" /\ rots = fails /\ gets = fails
             /\ current_proxy_index = (index0 + fails) % K
             /\ (fails >= 1 => proxies = proxy_list[current_proxy_index + 1])
     /\ (fres = "response" /\ fromLoop)
          => /\ fails < K /\ rots = fails /\ gets = fails + 1
             /\ current_proxy_index = (index0 + fails) % K
C1_Witness ==
  /\ pc = "fetch_ret" /\ fres = "response" /\ fromLoop
  /\ config.proxy_rotate /\ Len(proxy_list) = 3 /\ AllActivatable /\ allTransport
  /\ fails = 2 /\ rots = 2 /\ gets = 3

\* C2: a fetch call that ends unresolved after its GETs has sent exactly one
\* notification, and a call that returns a response has sent none.
C2_OneNotification ==
  pc = "fetch_ret"
  => /\ (fres = "unavailable" /\ ~Denied(furl)) => notes = 1
     /\ fres = "response" => notes = 0
C2_Witness ==
  pc = "fetch_ret" /\ fres = "unavailable" /\ gets >= 2 /\ notes = 1

\* C3 (as claimed): once a GET of the call failed with a request fault that is
\* not a transport fault, the call issues no further GET.
C3_NoGetAfterRequestFault == ~getAfterReq

\* C4: no exception raised by a GET escapes fetch(url): the call ends with a
\* response or with Unavailable.
C4_NoEscape ==
  /\ fres # "raised"
  /\ pc = "fetch_ret" => fres \in {"response", "unavailable"}
C4_Witness ==
  /\ pc = "fetch_ret" /\ fres = "unavailable" /\ old_proxies # NoProxy
  /\ fails = gets /\ gets >= 2 /\ allTransport

\* C5: a fetch call for a url the policy disallows returns Unavailable without
\* any GET or rotation and leaves current_proxy_index and the proxy in effect
\* as they were.
C5_PolicyDenied ==
  (pc = "fetch_ret" /\ Denied(furl))
  => /\ fres = "unavailable" /\ gets = 0 /\ rots = 0
     /\ current_proxy_index = index0 /\ proxies = proxies0
C5_Witness ==
  /\ pc = "fetch_ret" /\ Denied(furl) /\ fres = "unavailable"
  /\ proxies # NoProxy /\ Len(proxy_list) >= 2

\* C6 (as claimed): during a session no page is retrieved (GET or browser
\* navigation) from a url the policy disallows.
C6_NoDisallowedRetrieval ==
  (caller = "session" /\ lastNet # "") => ~Denied(lastNet)

\* C7 (as claimed): every GET of the fetcher is issued at least Delay time
\* units after the previous GET.
C7_GetsSpaced == [][gets' = gets + 1 => sinceGet >= Delay]_vars

\* C8 (as claimed): outside a running render call no browser session is open.
C8_BrowserReleased == pc # "render_nav" => browsers = 0

\* C9: the session attempts every category within the cap whatever faults were
\* raised in earlier ones, every fault is notified, and the session ends with
\* the summary and a success result.
C9_SessionSurvives ==
  /\ pc \in {"sess_loop", "sess_done", "cat_msg", "cat_sleep", "cat_fault"}
       => faulted \subseteq catNotified
  /\ pc = "sess_loop" => attempted = 0..(cat_i - 1)
  /\ pc \in {"cat_msg", "cat_sleep", "cat_fault"} => attempted = 0..cat_i /\ sres = "none"
  /\ pc = "sess_done"
       => sres = "success" /\ summarySent /\ attempted = 0..(Limit - 1)
C9_Witness ==
  /\ pc = "sess_done" /\ sres = "success" /\ summarySent
  /\ 0 \in faulted /\ 1 \in attempted
  /\ parsed_categories < Cardinality(attempted)

\* C10: current_proxy_index stays an index of the pool (0 for an empty pool),
\* and after K consecutive rotate() calls on a pool of size K it is back at
\* the value it had before the first of them.
C10_RotationCycle ==
  LET K == Len(proxy_list)
      W == IF K > 0 THEN K ELSE 1
  IN /\ current_proxy_index \in 0..(W - 1)
     /\ rotCount \in 0..W
     /\ current_proxy_index = (rotStart + rotCount) % W
     /\ rotCount = W => current_proxy_index = rotStart
C10_Witness ==
  /\ Len(proxy_list) = 3 /\ rotCount = 3
  /\ rotStart = 1 /\ current_proxy_index = 1

\* C11: with proxying disabled the pool is empty, no proxy is ever activated,
\* no rotation succeeds, and every GET of every fetch call is sent direct,
\* also after transport faults.
C11_DisabledStaysDirect ==
  ~config.proxy_enabled
  => /\ proxy_list = << >> /\ proxies = NoProxy /\ old_proxies = NoProxy
     /\ actUrl = "" /\ ~actOk /\ rots = 0 /\ current_proxy_index = 0
     /\ \A i \in 1..Len(tried) : tried[i] = NoProxy
C11_Witness ==
  /\ ~config.proxy_enabled /\ config.proxy_rotate
  /\ pc = "fetch_ret" /\ gets = 1 /\ fails = 1 /\ allTransport
  /\ tried = <<NoProxy>> /\ rotCount > 0

\* C16 (as stated): the direct attempt is made only after all max(1, pool
\* size) loop GETs were made and failed, with a proxy in use; it is made at
\* most once, and a call makes at most max(1, pool size) loop GETs plus one
\* direct GET.
C16_DirectOnlyWhenExhausted ==
  LET M == IF Len(proxy_list) > 1 THEN Len(proxy_list) ELSE 1 IN
  /\ pc = "fetch_direct"
       => gets = M /\ fails = M /\ old_proxies # NoProxy
  /\ InFetch => gets <= M + 1
  /\ (pc = "fetch_ret" /\ gets = M + 1) => tried[M + 1] = NoProxy

\* C17 (as stated): when the direct attempt fails, the proxies in effect when
\* the call returns are the ones that were in effect immediately before that
\* attempt.
C17_ProxiesRestored ==
  (pc = "fetch_ret" /\ old_proxies # NoProxy /\ fres # "response")
  => /\ proxies = old_proxies
     /\ tried[Len(tried)] = NoProxy

\* C17 (amended): when the direct attempt fails, the proxies that were in
\* effect immediately before it are put back before the failure notification
\* is awaited, and they are in effect when the call returns unless another
\* task called rotate() during that await; then the proxies in effect are the
\* ones that rotate() call left.
C17_ProxiesRestoredBeforeNotification ==
  (pc \in {"fetch_note", "fetch_ret"} /\ old_proxies # NoProxy /\ fres # "response")
  => /\ tried[Len(tried)] = NoProxy
     /\ ~actNote => proxies = old_proxies
     /\ actNote => proxies = (IF actOk THEN actUrl ELSE actPrev)
C17_Witness ==
  /\ pc = "fetch_ret" /\ old_proxies = "socks5://b" /\ fres = "unavailable"
  /\ proxies = "socks5://b" /\ gets = 3 /\ fails = 3 /\ ~actNote

\* C18: activating a SOCKS proxy on a transport without SOCKS support
\* returns false and leaves the proxy in effect before the call, or no
\* proxy, in effect.
C18_SocksUnavailable ==
  (pc = "idle" /\ actUrl \in SocksProxies /\ ~has_socks)
  => ~actOk /\ proxies = actPrev
C18_Witness ==
  /\ pc = "idle" /\ actUrl \in SocksProxies /\ ~has_socks
  /\ actPrev \in HttpProxies /\ proxies = actPrev /\ ~actOk

\* the loop GETs of the call went through pool entries start, start + 1, ...
\* (mod K), each entry once
TriedEachOnce ==
  LET K == Len(proxy_list) IN
  /\ Len(tried) >= K
  /\ \A k \in 0..(K - 1) : tried[k + 1] = proxy_list[((index0 + k) % K) + 1]

\* the call has left the proxy loop after K transport faults, rotation
\* enabled, K >= 2 activatable proxies
LoopExhausted ==
  /\ pc \in {"fetch_direct", "fetch_note", "fetch_ret"} /\ config.proxy_rotate
  /\ Len(proxy_list) >= 2 /\ AllActivatable /\ allTransport
  /\ fails >= Len(proxy_list)

\* C20 (as stated): with rotation enabled, K >= 2 activatable proxies and
\* every GET failing with a transport fault, the call tries each proxy
\* exactly once, rotates exactly K times and leaves current_index at its
\* start value.
C20_FullCycle ==
  LoopExhausted
  => /\ rots = Len(proxy_list) /\ current_proxy_index = index0
     /\ TriedEachOnce

\* C20 (amended): every such call rotates exactly K times, and its K
\* rotations leave current_proxy_index at its start value: the index has that
\* value from the end of the loop on, unless another task called rotate()
\* while the call awaited its failure notification. Each proxy is tried
\* exactly once when a proxy is in effect at the start of the call, and when
\* the transport was left direct by an earlier successful fallback the first
\* GET goes direct and the remaining K - 1 GETs go through the K - 1 entries
\* after the start index.
C20_FullCycleFromProxy ==
  LET K == Len(proxy_list) IN
  LoopExhausted
  => /\ rots = K
     /\ ~actNote => current_proxy_index = index0
     /\ proxies0 # NoProxy => TriedEachOnce
     /\ proxies0 = NoProxy
          => /\ tried[1] = NoProxy
             /\ \A k \in 1..(K - 1) : tried[k + 1] = proxy_list[((index0 + k) % K) + 1]
C20_Witness ==
  /\ LoopExhausted /\ Len(proxy_list) = 3 /\ index0 = 1
  /\ proxies0 # NoProxy /\ rots = 3 /\ current_proxy_index = 1
  /\ pc = "fetch_direct"

\* the anchors of the home page that pass the text-length and exclusion filters
QualifyingAnchors == {i \in 1..Len(home) : Qualifies(home[i])}
\* the absolute URL an anchor resolves to
UrlOf(i) == UrlJoin(base_url, home[i].href)
\* the URL-valid absolute URLs of the qualifying anchors
SurvivingURLs == {UrlOf(i) : i \in {j \in QualifyingAnchors : ValidateUrl(UrlOf(j))}}
\* whether selector number k matches a qualifying anchor of url u
Hits(k, u) ==
  \E i \in QualifyingAnchors : UrlOf(i) = u /\ Select(category_selectors[k], home[i])
\* position in the cascade of the first selector matching a qualifying anchor of url u
FirstSelector(u) ==
  CHOOSE k \in 1..Len(category_selectors) :
    Hits(k, u) /\ \A m \in 1..(k - 1) : ~Hits(m, u)
\* first anchor of url u, in document order, matched by that selector
FirstAnchor(u) ==
  LET sel == category_selectors[FirstSelector(u)]
      A == {i \in QualifyingAnchors : UrlOf(i) = u /\ Select(sel, home[i])}
  IN CHOOSE i \in A : \A j \in A : i <= j
\* where url u is collected: its first selector, then its first anchor
Rank == [u \in SurvivingURLs |-> <<FirstSelector(u), FirstAnchor(u)>>]
\* rank r comes before rank q
Before(r, q) == r[1] < q[1] \/ (r[1] = q[1] /\ r[2] < q[2])
FoundURLs == {found[i].url : i \in 1..Len(found)}
\* found is the first MaxCategories surviving urls in collection order
FoundIsDiscovered ==
  LET rank == Rank IN
  /\ Len(found) = Min(MaxCategories, Cardinality(SurvivingURLs))
  /\ FoundURLs \subseteq SurvivingURLs
  /\ \A i, j \in 1..Len(found) : i < j => Before(rank[found[i].url], rank[found[j].url])
  /\ \A u \in SurvivingURLs \ FoundURLs :
       \A i \in 1..Len(found) : Before(rank[found[i].url], rank[u])
\* found is the first five built-in categories
FoundIsFallback ==
  /\ Len(found) = MaxCategories
  /\ \A i \in 1..Len(found) : found[i].url = base_url \o fallback_categories[i]

\* C12 (as stated): with fewer than 3 qualifying links discovery returns the
\* 5-entry fallback list, with 3 or more it returns the discovered list
\* capped at 5, in order.
C12_FallbackByLinks ==
  ppc = "done"
  => /\ Cardinality(QualifyingAnchors) < MinDiscovered => FoundIsFallback
     /\ Cardinality(QualifyingAnchors) >= MinDiscovered => FoundIsDiscovered

\* C12 (amended): discovery returns the first 5 built-in categories when fewer
\* than 3 distinct URL-valid URLs survive among the qualifying links, and
\* otherwise the first 5 of those URLs in collection order (by first
\* matching selector, then by position on the page).
C12_FallbackByUniqueURLs ==
  ppc = "done"
  => /\ Cardinality(SurvivingURLs) < MinDiscovered => FoundIsFallback
     /\ Cardinality(SurvivingURLs) >= MinDiscovered => FoundIsDiscovered
C12_Witness ==
  /\ ppc = "done" /\ Cardinality(QualifyingAnchors) = 6
  /\ Cardinality(SurvivingURLs) = 6 /\ Len(found) = 5
  /\ found[1].url = "https://www.doski.ru/cat-2/" /\ home[1].href = "/page/6/"
  /\ found[5].url = "https://www.doski.ru/page/6/"

\* the returned entries have pairwise different urls, are no more than the
\* qualifying links, and carry the first selector that matched their url
FoundDeduplicated ==
  /\ \A i, j \in 1..Len(found) : i # j => found[i].url # found[j].url
  /\ Cardinality(FoundURLs) <= Cardinality(QualifyingAnchors)
  /\ \A i \in 1..Len(found) :
       /\ "found_by" \in DOMAIN found[i]
       /\ found[i].url \in SurvivingURLs
       /\ found[i].found_by = category_selectors[FirstSelector(found[i].url)]
       /\ found[i].name = Strip(home[FirstAnchor(found[i].url)].text)

\* C13 (as stated): the returned categories contain no two entries with the
\* same URL, never more unique URLs than the input links, and each entry's
\* found_by is the first selector in the cascade that matched that URL.
C13_Deduplicated == ppc = "done" => FoundDeduplicated

\* C13 (amended): when discovery keeps its own results (at least 3 distinct
\* surviving URLs) the returned categories are as C13 states; when it
\* substitutes the fallback list the entries are the built-in ones, whatever
\* the number of input links, and carry no found_by.
C13_DeduplicatedUnlessFallback ==
  ppc = "done"
  => /\ Cardinality(SurvivingURLs) >= MinDiscovered => FoundDeduplicated
     /\ Cardinality(SurvivingURLs) < MinDiscovered
          => \A i \in 1..Len(found) :
               /\ DOMAIN found[i] = {"name", "url"}
               /\ found[i] = FallbackRecords[i]
C13_Witness ==
  /\ ppc = "done" /\ Len(home) = 4 /\ Len(found) = 3
  /\ home[1].href = "/page/5/" /\ home[2].href = "https://www.doski.ru/page/5/"
  /\ \E i \in 1..Len(found) :
       /\ found[i].url = "https://www.doski.ru/page/5/"
       /\ found[i].found_by = "nav a" /\ found[i].name = "Work"

\* an absolute URL: one with a scheme and a host
IsAbsolute(url) ==
  \/ url \in AbsoluteHrefs \ {"http://"}
  \/ \E r \in TableRows : r.href # NoAttr /\ url = base_url \o r.href

\* C14 (as stated): every listing returned by extract(html) has a non-empty
\* title and an absolute url; a row whose title text is empty is discarded.
C14_TitlesNonEmpty ==
  (ppc = "done" /\ outcome = "returned")
  => \A i \in 1..Len(listings) :
       listings[i].title # "" /\ IsAbsolute(listings[i].url)

\* the rows of table.ml that hold a title anchor, by position on the page
AnchorRows == {i \in 1..Len(rows) : rows[i].tbl = "ml" /\ rows[i].sbj}
\* the k-th of them in row order
NthAnchorRow(k) ==
  CHOOSE i \in AnchorRows : Cardinality({j \in AnchorRows : j <= i}) = k

\* the listings are those of the rows of the listings table that hold a
\* title anchor, one each, in row order: the k-th listing has the title, url
\* and price of the k-th such row
OnePerAnchorRow ==
  /\ Len(listings) = Cardinality(AnchorRows)
  /\ \A k \in 1..Len(listings) :
       LET r == rows[NthAnchorRow(k)] IN
       /\ listings[k].title = Strip(r.text)
       /\ listings[k].url = UrlJoin(base_url, r.href)
       /\ listings[k].price = TextOf(r.price)
\* every title anchor of the listings table carries an href
AnchorsHaveHref == \A i \in AnchorRows : rows[i].href # NoAttr

\* C15 (as stated): the table-row strategy returns exactly one listing per
\* row of the listings table that holds a title anchor, in row order; rows
\* without a title anchor produce none.
C15_OnePerAnchorRow ==
  ppc = "done" => outcome = "returned" /\ OnePerAnchorRow

\* C15 (amended): when every title anchor of the listings table carries an
\* href, the table-row strategy returns exactly one listing per row that
\* holds a title anchor, in row order, and none for the other rows; when a
\* title anchor has no href the call raises KeyError and returns no listing.
C15_OnePerAnchorRowWithHref ==
  ppc = "done"
  => /\ AnchorsHaveHref => outcome = "returned" /\ OnePerAnchorRow
     /\ ~AnchorsHaveHref => outcome = "KeyError" /\ listings = << >>
\* three valid rows and one header row
C15_Witness ==
  /\ ppc = "done" /\ outcome = "returned" /\ Len(rows) = 4
  /\ ~rows[1].sbj /\ rows[2].text = "Bike" /\ rows[3].text = " Sofa "
  /\ rows[4].text = "Bike"
  /\ Len(listings) = 3 /\ listings[2].title = "Sofa" /\ listings[3].id = "101"

\* C19 (as stated): if any selector of the title cascade matches an element
\* with non-empty text the record gets a non-empty title and is returned;
\* it is discarded only when no selector yields non-empty text.
C19_FirstNonEmptyTitle ==
  LET nonEmpty == \E s \in Range(title_selectors) :
                     item.title[s] # NoElem /\ Strip(item.title[s]) # ""
  IN ppc = "done"
     => /\ nonEmpty => (outcome = "returned" /\ listing.title # "")
        /\ outcome = "None" => ~nonEmpty

\* C21 (as stated): after any sequence of configure, rotate and fetch calls,
\* whenever a proxy is in effect on the transport it is the pool entry at
\* current_proxy_index.
C21_ActiveIsCurrent ==
  proxies # NoProxy
  => /\ current_proxy_index < Len(proxy_list)
     /\ proxies = proxy_list[current_proxy_index + 1]
====
